---------------------------- MODULE Spec2Model ----------------------------
(***************************************************************************)
(* Voice-command dataset preparation (baota94/VoiceRecoginzing).           *)
(*                                                                         *)
(* LayDataSet.py  DatasetBuilder: activity detection with                  *)
(*                librosa.effects.split, selection of the kept segment     *)
(*                (longest | concat), the min_duration rule, writing of    *)
(*                dataset/<label>/<file>.                                  *)
(* train_ver3.py  VoiceTrainer: log-mel features padded or truncated to    *)
(*                MAX_LEN frames, one example per file of dataset/<label>. *)
(*                                                                         *)
(* Three specifications are given.  Spec runs one clip through the         *)
(* builder's _load_file and SpecFeatures one file through the trainer's    *)
(* feature extraction, each for every waveform up to MaxWaveLen samples.   *)
(* SpecBuild runs the builder's worker thread over a recordings folder and *)
(* the trainer's loader over the dataset folder it writes.                 *)
(*                                                                         *)
(* Sizes are scaled so that the state space is finite and small: a hop of  *)
(* HOP_LENGTH samples stands for librosa's 512, and the program constants  *)
(* SAMPLE_RATE, N_MFCC and MAX_LEN carry small values in place of 16000,   *)
(* 40 and 64.  No definition depends on the particular values.             *)
(***************************************************************************)
EXTENDS Integers, Sequences, FiniteSets, TLC

(***************************************************************************)
(* Bounds and scaled sizes                                                 *)
(***************************************************************************)
\* longest waveform drawn in Init of Spec, in samples
MaxWaveLen == 6

\* hop_length of librosa.effects.split and librosa.feature.melspectrogram
\* (library default 512)
HOP_LENGTH == 1

\* frame_length / n_fft (library default 2048 = 4 * 512)
FRAME_LENGTH == 4 * HOP_LENGTH

\* LayDataSet.py:34, train_ver3.py:23 (16000 in the code)
SAMPLE_RATE == 5

\* train_ver3.py:24 (40 in the code)
N_MFCC == 2

\* train_ver3.py:25 (64 in the code)
MAX_LEN == 3

\* amin**2 of librosa.core.amplitude_to_db / amin of power_to_db, in the
\* model's unit of frame energy (sum of squared samples)
AMIN_SQ == 1

\* top_db of librosa.power_to_db in the trainer (library default 80.0)
FEATURE_TOP_DB == 80

(***************************************************************************)
(* Values                                                                  *)
(***************************************************************************)
\* sample amplitudes: silence, a quiet level, a loud level
Samples == {0, 10, -40}

Waveforms == UNION {[1..n -> Samples] : n \in 0..MaxWaveLen}

\* values the "top_db" entry of the builder is given (tk.DoubleVar, free text)
TopDbs == {0, 10, 25}

\* values of the "min_duration" entry, in tenths of a second; the entry
\* takes any number the user types, a negative one too
MinDurations == {-1, 0, 2, 6}

Methods == {"longest", "concat"}

\* the sequence f as an explicit tuple (elements evaluated once)
AsTuple(f) == <<>> \o f

Max2(a, b) == IF a >= b THEN a ELSE b

Min2(a, b) == IF a <= b THEN a ELSE b

RECURSIVE SumSeq(_)
SumSeq(s) == IF s = <<>> THEN 0 ELSE Head(s) + SumSeq(Tail(s))

RECURSIVE MaxSeq(_)
MaxSeq(s) == IF Len(s) = 1 THEN s[1] ELSE Max2(Head(s), MaxSeq(Tail(s)))

RECURSIVE ConcatAll(_)
\* np.concatenate(parts)
ConcatAll(parts) ==
    IF parts = <<>> THEN <<>> ELSE Head(parts) \o ConcatAll(Tail(parts))

\* y[s:e] for 0 <= s <= e <= len(y)
Slice(w, s, e) == SubSeq(w, s + 1, e)

(***************************************************************************)
(* librosa.effects.split(y, top_db)                                        *)
(***************************************************************************)
\* number of analysis frames with center=True
NumFrames(w) == 1 + (Len(w) \div HOP_LENGTH)

\* feature.rms: energy of frame k (0-based), the frame centred on sample
\* k*hop_length of the signal zero-padded by frame_length//2 on both sides
\* (pad_mode="constant").  The mean is replaced by the sum: every frame has
\* the same length, and AMIN_SQ is given in the same unit.
FramePower(w, k) ==
    LET lo == Max2(k * HOP_LENGTH - (FRAME_LENGTH \div 2), 0)
        hi == Min2(k * HOP_LENGTH - (FRAME_LENGTH \div 2) + FRAME_LENGTH, Len(w))
    IN  SumSeq([i \in 1..Max2(hi - lo, 0) |-> w[lo + i] * w[lo + i]])

\* 10 ** (top_db / 10) for the values of TopDbs, as a fraction; 31623/100
\* decides every comparison of the model's frame energies as 10 ** 2.5 does
RatioNum(db) == CASE db = 0 -> 1 [] db = 10 -> 10 [] db = 25 -> 31623

RatioDen(db) == CASE db = 0 -> 1 [] db = 10 -> 1 [] db = 25 -> 100

\* _signal_to_frame_nonsilent: amplitude_to_db(rms, ref=np.max, top_db=None)
\* > -top_db, i.e.
\*   10*log10(max(amin^2, p[k])) - 10*log10(max(amin^2, max(p))) > -top_db
NonSilent(w, db) ==
    LET p   == AsTuple([k \in 1..NumFrames(w) |-> FramePower(w, k - 1)])
        ref == MaxSeq(p)
    IN  AsTuple([k \in 1..NumFrames(w) |->
            Max2(AMIN_SQ, p[k]) * RatioNum(db) > Max2(AMIN_SQ, ref) * RatioDen(db)])

RECURSIVE EdgesFrom(_, _)
\* np.flatnonzero(np.diff(non_silent)) + 1, ascending, from frame k on
EdgesFrom(ns, k) ==
    IF k >= Len(ns) THEN <<>>
    ELSE (IF ns[k] # ns[k + 1] THEN <<k>> ELSE <<>>) \o EdgesFrom(ns, k + 1)

RECURSIVE Pairs(_)
\* edges.reshape((-1, 2))
Pairs(e) ==
    IF Len(e) < 2 THEN <<>> ELSE << <<e[1], e[2]>> >> \o Pairs(Tail(Tail(e)))

Split(w, db) ==
    LET ns    == NonSilent(w, db)
        edges == (IF ns[1] THEN <<0>> ELSE <<>>)
                 \o EdgesFrom(ns, 1)
                 \o (IF ns[Len(ns)] THEN <<Len(ns)>> ELSE <<>>)
        \* frames_to_samples, then np.minimum(edges, y.shape[-1])
        samples == AsTuple([i \in 1..Len(edges) |->
                               Min2(edges[i] * HOP_LENGTH, Len(w))])
    IN  Pairs(samples)

(***************************************************************************)
(* Selection of the kept segment                                           *)
(***************************************************************************)
\* Python's order on the tuples (end-start, start, end)
TupleLess(a, b) ==
    \/ a[1] < b[1]
    \/ a[1] = b[1] /\ a[2] < b[2]
    \/ a[1] = b[1] /\ a[2] = b[2] /\ a[3] < b[3]

RECURSIVE InsertAsc(_, _)
InsertAsc(t, s) ==
    IF s = <<>> THEN <<t>>
    ELSE IF TupleLess(t, Head(s)) THEN <<t>> \o s
         ELSE <<Head(s)>> \o InsertAsc(t, Tail(s))

RECURSIVE SortAscending(_)
\* lengths.sort() without reverse=True
SortAscending(s) ==
    IF s = <<>> THEN <<>> ELSE InsertAsc(Head(s), SortAscending(Tail(s)))

RECURSIVE InsertBySpan(_, _)
InsertBySpan(t, s) ==
    IF s = <<>> THEN <<t>>
    ELSE IF Head(s)[1] <= t[1] THEN <<t>> \o s
         ELSE <<Head(s)>> \o InsertBySpan(t, Tail(s))

RECURSIVE SortBySpanOnly(_)
\* a descending sort on the span alone: equal spans keep their list order
SortBySpanOnly(s) ==
    IF s = <<>> THEN <<>> ELSE InsertBySpan(Head(s), SortBySpanOnly(Tail(s)))

RECURSIVE InsertDesc(_, _)
InsertDesc(t, s) ==
    IF s = <<>> THEN <<t>>
    ELSE IF TupleLess(Head(s), t) THEN <<t>> \o s
         ELSE <<Head(s)>> \o InsertDesc(t, Tail(s))

RECURSIVE SortReverse(_)
\* lengths.sort(reverse=True): descending in Python's tuple order
SortReverse(s) ==
    IF s = <<>> THEN <<>> ELSE InsertDesc(Head(s), SortReverse(Tail(s)))

\* lengths = [(end-start, start, end) ...]; lengths.sort(reverse=True);
\* _, s, e = lengths[0]
LongestInterval(ivs) ==
    LET lengths == AsTuple([i \in 1..Len(ivs) |->
                       <<ivs[i][2] - ivs[i][1], ivs[i][1], ivs[i][2]>>])
        t       == SortReverse(lengths)[1]
    IN  <<t[2], t[3]>>

\* y[s:e]
SelectLongest(w, ivs) ==
    LET se == LongestInterval(ivs) IN Slice(w, se[1], se[2])

\* a concatenation that keeps everything from the first start to the last end
ConcatSpan(w, ivs) == Slice(w, ivs[1][1], ivs[Len(ivs)][2])

\* parts = [y[s:e] for (s,e) in intervals]; np.concatenate(parts)
SelectConcat(w, ivs) ==
    ConcatAll([i \in 1..Len(ivs) |-> Slice(w, ivs[i][1], ivs[i][2])])

\* the segment before the min_duration rule, for a non-empty interval list
Select(w, ivs, m) ==
    IF m = "longest" THEN SelectLongest(w, ivs) ELSE SelectConcat(w, ivs)

\* a rule that also rejects a segment of exactly min_duration
TooShortInclusive(seg, md) == Len(seg) * 10 <= md * SAMPLE_RATE

\* len(proc) / SAMPLE_RATE < float(min_duration), md in tenths of a second
TooShort(seg, md) == Len(seg) * 10 < md * SAMPLE_RATE

(***************************************************************************)
(* Log-mel features of the trainer                                         *)
(***************************************************************************)
RECURSIVE ILog2(_)
ILog2(n) == IF n <= 1 THEN 0 ELSE 1 + ILog2(n \div 2)

\* 10*log10(max(amin, p)) to the nearest 3 dB per octave
Db(p) == 3 * ILog2(Max2(AMIN_SQ, p))

\* energy of frame k in mel band b: the spectral decomposition is abstracted
\* to a split of the frame's samples among the N_MFCC bands
BandPower(w, k, b) ==
    LET lo == Max2(k * HOP_LENGTH - (FRAME_LENGTH \div 2), 0)
        hi == Min2(k * HOP_LENGTH - (FRAME_LENGTH \div 2) + FRAME_LENGTH, Len(w))
    IN  SumSeq([i \in 1..Max2(hi - lo, 0) |->
                   IF ((lo + i) % N_MFCC) + 1 = b THEN w[lo + i] * w[lo + i] ELSE 0])

\* librosa.feature.melspectrogram followed by power_to_db(S, ref=np.max):
\* one column of N_MFCC values per frame
MelDb(w) ==
    LET S    == AsTuple([k \in 1..NumFrames(w) |->
                            AsTuple([b \in 1..N_MFCC |-> BandPower(w, k - 1, b)])])
        ref  == MaxSeq(AsTuple([k \in 1..NumFrames(w) |-> MaxSeq(S[k])]))
        \* log_spec, then np.maximum(log_spec, log_spec.max() - top_db); the
        \* maximum of log_spec is 0 because ref is the maximum of S
    IN  AsTuple([k \in 1..NumFrames(w) |->
            AsTuple([b \in 1..N_MFCC |->
                Max2(Db(S[k][b]) - Db(ref), 0 - FEATURE_TOP_DB)])])

ZeroColumn == AsTuple([b \in 1..N_MFCC |-> 0])

\* padding without the truncating branch
PadOnly(m) ==
    IF Len(m) < MAX_LEN
    THEN m \o [i \in 1..(MAX_LEN - Len(m)) |-> ZeroColumn]
    ELSE m

\* padding on the left, truncation of the head
PadLeftKeepTail(m) ==
    IF Len(m) < MAX_LEN
    THEN [i \in 1..(MAX_LEN - Len(m)) |-> ZeroColumn] \o m
    ELSE SubSeq(m, Len(m) - MAX_LEN + 1, Len(m))

\* np.pad(mfe, ((0,0),(0,pad_width)), mode="constant") | mfe[:, :MAX_LEN]
PadOrTruncate(m) ==
    IF Len(m) < MAX_LEN
    THEN m \o [i \in 1..(MAX_LEN - Len(m)) |-> ZeroColumn]
    ELSE SubSeq(m, 1, MAX_LEN)


(***************************************************************************)
(* The per-clip handlers of the builder                                    *)
(***************************************************************************)
\* (proc * 32767).astype(np.int16) written as PCM_16 and read back by
\* librosa.load, for a sample v given in units of 1/32768: the product
\* v * 32767 / 32768 is truncated toward zero
ToPcm16(v) == IF v > 0 THEN v - 1 ELSE IF v < 0 THEN v + 1 ELSE 0

WritePcm16(seg) == AsTuple([i \in 1..Len(seg) |-> ToPcm16(seg[i])])

\* _prepare_processed without the early return on an empty interval list:
\* lengths[0] / np.concatenate([]) raise, _load_file logs 'Load error'
PrepareProcessedNoGuard(w, db, m, md) ==
    LET ivs == Split(w, db)
    IN  IF Len(ivs) = 0
        THEN [intervals |-> ivs, sel |-> <<>>, proc |-> <<>>, processed_y |-> <<>>,
              lines |-> <<"Intervals found", "Load error">>]
        ELSE LET seg == Select(w, ivs, m)
             IN  [intervals   |-> ivs,
                  sel         |-> IF m = "longest" THEN LongestInterval(ivs) ELSE <<>>,
                  proc        |-> seg,
                  processed_y |-> IF TooShort(seg, md) THEN <<>> ELSE seg,
                  lines       |-> <<"Intervals found",
                                    IF TooShort(seg, md) THEN "discarding"
                                                         ELSE "Processed length">>]

\* DatasetBuilder._prepare_processed(y) with top_db = db, method = m and
\* min_duration = md: the fields it assigns and the lines it logs.
\* sel and proc are the locals (s, e) and processed_y before the
\* min_duration rule; <<>> stands for a value not assigned.
PrepareProcessed(w, db, m, md) ==
    LET ivs == Split(w, db)
    IN  IF Len(ivs) = 0
        THEN [intervals |-> ivs, sel |-> <<>>, proc |-> <<>>, processed_y |-> <<>>,
              lines |-> <<"Intervals found">>]
        ELSE LET seg == Select(w, ivs, m)
             IN  [intervals   |-> ivs,
                  sel         |-> IF m = "longest" THEN LongestInterval(ivs) ELSE <<>>,
                  proc        |-> seg,
                  processed_y |-> IF TooShort(seg, md) THEN <<>> ELSE seg,
                  lines       |-> <<"Intervals found",
                                    IF TooShort(seg, md) THEN "discarding"
                                                         ELSE "Processed length">>]

\* the per-file body that writes the file whatever the min_duration rule says
ProcessOneAlwaysWrite(w, db, m, md) ==
    LET ivs == Split(w, db)
    IN  IF Len(ivs) = 0
        THEN [outcome |-> "No activity", data |-> <<>>]
        ELSE [outcome |-> "written", data |-> WritePcm16(Select(w, ivs, m))]

\* the body of the per-file loop of DatasetBuilder._process_label for a file
\* holding the waveform w: what it logs or writes
ProcessOne(w, db, m, md) ==
    LET ivs == Split(w, db)
    IN  IF Len(ivs) = 0
        THEN [outcome |-> "No activity", data |-> <<>>]
        ELSE LET seg == Select(w, ivs, m)
             IN  IF TooShort(seg, md)
                 THEN [outcome |-> "Too short, skip", data |-> <<>>]
                 ELSE [outcome |-> "written", data |-> WritePcm16(seg)]

(***************************************************************************)
(* Folders                                                                 *)
(***************************************************************************)
\* LABEL_GROUPS["Action"], the group the trainer's combo box starts with
ActionLabels == <<"Bat", "Tat">>

\* the label folders under recordings/
RecLabels == {"Bat", "Tat"}

\* os.listdir(recordings/<label>)
Recordings(l) ==
    CASE l = "Bat" -> <<"Bat_1.wav", "Bat_2.wav">>
      [] l = "Tat" -> <<"Tat_0.wav", "Tat_1.wav">>

\* the recordings librosa.load cannot decode
BadRecordings == {"Tat_0.wav"}

\* the recorded waveform of each file: two bursts of equal span, one burst
\* at the very end, a file that is not audio, silence
FileWave(f) ==
    CASE f = "Bat_1.wav" -> <<-40, 0, 0, 0, 0, -40, 0>>
      [] f = "Bat_2.wav" -> <<0, 0, 0, 0, -40>>
      [] f = "Tat_0.wav" -> <<>>
      [] f = "Tat_1.wav" -> <<0, 0, 0, 0>>

\* the worker threads one model run may start
MaxRuns == 2

(***************************************************************************)
(* The trainer: label groups and the stratified split                      *)
(***************************************************************************)
\* LABEL_GROUPS of train_ver3.py
LABEL_GROUPS ==
    [Action |-> <<"Bat", "Tat">>,
     Device |-> <<"Den", "Quat">>,
     Room   |-> <<"Ngu", "Khach", "Bep">>]

Groups == DOMAIN LABEL_GROUPS

\* the values the "Test split" entry may hold, in hundredths (0.2 is 20)
TestSplits == {20, 25, 50}

\* the largest number of examples of one label, besides the two counts of
\* the stratification example
MaxCount == 6

Counts == (1..MaxCount) \cup {20, 100}

\* the numbers of examples per label present in Y (np.unique), for groups
\* of up to three labels
ClassCounts == UNION {[1..k -> Counts] : k \in 1..3}

\* train_test_split called without test_size: the default 0.25 is used
NTestDefault(n, p) == (25 * n + 99) \div 100

\* sklearn _validate_shuffle_split: n_test = ceil(test_size * n_samples)
NTest(n, p) == (p * n + 99) \div 100

Minus(a, b) == AsTuple([i \in 1..Len(a) |-> a[i] - b[i]])

\* each label cut on its own: floor(n_draws / total * count), no remainder
\* handed out
PerLabelFloor(counts, n_draws) ==
    {AsTuple([i \in 1..Len(counts) |-> (counts[i] * n_draws) \div SumSeq(counts)])}

\* sklearn _approximate_mode(class_counts, n_draws, rng): the floor of each
\* label's proportional share, then one more for the labels of greatest
\* remainder until n_draws are handed out; labels of equal remainder are
\* drawn by rng, so every such draw is a possible result
ApproximateMode(counts, n_draws) ==
    LET total   == SumSeq(counts)
        k       == Len(counts)
        floored == AsTuple([i \in 1..k |-> (counts[i] * n_draws) \div total])
        rem     == AsTuple([i \in 1..k |-> (counts[i] * n_draws) % total])
        need    == n_draws - SumSeq(floored)
    IN  {AsTuple([i \in 1..k |-> floored[i] + (IF i \in S THEN 1 ELSE 0)]) :
            S \in {T \in SUBSET (1..k) :
                      /\ Cardinality(T) = need
                      /\ \A i \in T : \A j \in (1..k) \ T : rem[i] >= rem[j]}}

\* train_test_split(X, Y, test_size = p/100, random_state = 42, stratify = Y)
\* for labels with the given numbers of examples: the numbers of examples
\* of each label that go to the training and to the held-out subset, or the
\* ValueError of StratifiedShuffleSplit
StratifiedCounts(counts, p) ==
    LET n       == SumSeq(counts)
        k       == Len(counts)
        n_test  == NTest(n, p)
        n_train == n - n_test
    IN  IF \/ n_train = 0
           \/ \E i \in 1..k : counts[i] < 2
           \/ n_train < k
           \/ n_test < k
        THEN {[status |-> "ValueError", train |-> <<>>, test |-> <<>>]}
        ELSE UNION {{[status |-> "ok", train |-> n_i, test |-> t_i] :
                        t_i \in ApproximateMode(Minus(counts, n_i), n_test)} :
                    n_i \in ApproximateMode(counts, n_train)}

\* the labels present in Y, ascending (np.unique)
UniqueSorted(Ys) ==
    SelectSeq(AsTuple([c \in 1..(MaxSeq(Ys) + 1) |-> c - 1]),
              LAMBDA c : \E i \in 1..Len(Ys) : Ys[i] = c)

\* a split that leaves the held-out examples in the training subset too
SeededSplitOverlap(Ys, p) ==
    LET u      == UniqueSorted(Ys)
        counts == AsTuple([k \in 1..Len(u) |->
                              Cardinality({i \in 1..Len(Ys) : Ys[i] = u[k]})])
        r      == CHOOSE o \in StratifiedCounts(counts, p) : TRUE
    IN  IF r.status = "ValueError"
        THEN [status |-> "ValueError", train |-> {}, test |-> {}]
        ELSE LET T == CHOOSE S \in SUBSET (1..Len(Ys)) :
                          \A k \in 1..Len(u) :
                              Cardinality({i \in S : Ys[i] = u[k]}) = r.test[k]
             IN  [status |-> "ok", train |-> 1..Len(Ys), test |-> T]

\* train_test_split(X, Y, test_size = p/100, random_state = 42, stratify = Y)
\* for the label list Ys: the positions of the training and of the held-out
\* examples.  The generator is seeded, so the draw is a fixed function of
\* Ys and p; CHOOSE stands for that function.
SeededSplit(Ys, p) ==
    LET u      == UniqueSorted(Ys)
        counts == AsTuple([k \in 1..Len(u) |->
                              Cardinality({i \in 1..Len(Ys) : Ys[i] = u[k]})])
        r      == CHOOSE o \in StratifiedCounts(counts, p) : TRUE
    IN  IF r.status = "ValueError"
        THEN [status |-> "ValueError", train |-> {}, test |-> {}]
        ELSE LET T == CHOOSE S \in SUBSET (1..Len(Ys)) :
                          \A k \in 1..Len(u) :
                              Cardinality({i \in S : Ys[i] = u[k]}) = r.test[k]
             IN  [status |-> "ok", train |-> (1..Len(Ys)) \ T, test |-> T]

(***************************************************************************)
(* The trainer: the folders under dataset/ and the loader's steps          *)
(***************************************************************************)
\* the presses of the Train button: each starts one thread
Threads == {"t1", "t2"}

\* the names a label folder of dataset/ may hold
FileNames == {"a.wav", "B.WAV", "c.txt", "d.wav"}

\* f.lower().endswith(".wav")
IsWav(f) == f \in {"a.wav", "B.WAV", "d.wav"}

\* what each file holds
FileWaveform(f) ==
    CASE f = "a.wav" -> <<10, 0>>
      [] f = "B.WAV" -> <<-40>>
      [] f = "c.txt" -> <<>>
      [] f = "d.wav" -> <<0, 10>>

\* the states of one label folder: missing, empty, one clip, two clips and
\* a text file, three clips of which one cannot be decoded
FolderStates ==
    {[exists |-> FALSE, files |-> {}, bad |-> {}],
     [exists |-> TRUE,  files |-> {}, bad |-> {}],
     [exists |-> TRUE,  files |-> {"a.wav"}, bad |-> {}],
     [exists |-> TRUE,  files |-> {"a.wav", "B.WAV", "c.txt"}, bad |-> {}],
     [exists |-> TRUE,  files |-> {"a.wav", "B.WAV", "d.wav"}, bad |-> {"a.wav"}]}

\* the labels whose folder varies; dataset/Bep always holds two clips and
\* the folders of the other labels are missing
VariedLabels == {"Bat", "Tat"}

BepFolder == [exists |-> TRUE, files |-> {"a.wav", "B.WAV"}, bad |-> {}]

FolderFiles(l, st) ==
    {[label |-> l, name |-> f, data |-> FileWaveform(f)] : f \in st.files}

\* the sequences that hold each element of S once
Perms(S) ==
    {s \in [1..Cardinality(S) -> S] : \A i, j \in 1..Cardinality(S) : s[i] = s[j] => i = j}

\* [f for f in os.listdir(folder) if f.lower().endswith(".wav")]: listdir
\* returns the names in arbitrary order
ListDir(files, l) ==
    {AsTuple(s) : s \in Perms({d.name : d \in {e \in files : e.label = l /\ IsWav(e.name)}})}

\* a thread of _train that has not started
IdleThread ==
    [pc |-> "idle", selected_labels |-> <<>>, todo |-> <<>>, idx |-> 0,
     files |-> <<>>, X |-> <<>>, Y |-> <<>>, src |-> <<>>, tried |-> <<>>,
     lines |-> <<>>, train |-> {}, test |-> {}, path |-> <<>>]

\* _load_dataset, lines 100-103
BeginLoad(s, sl) ==
    [s EXCEPT !.pc = "labels", !.selected_labels = sl, !.todo = sl, !.idx = 0,
              !.lines = Append(@, <<"Selected labels", sl>>)]

\* the next turn of "for idx, label in enumerate(selected_labels)"
Advance(s) == [s EXCEPT !.pc = "labels", !.todo = Tail(@), !.idx = @ + 1, !.files = <<>>]

\* a loop that counts only the labels whose folder exists
FolderNotFoundNoCount(s) ==
    [s EXCEPT !.pc = "labels", !.todo = Tail(@), !.files = <<>>,
              !.lines = Append(@, <<"Folder not found", Head(s.todo)>>)]

\* a loader that gives up at the first missing folder
FolderNotFoundReturn(s) ==
    [s EXCEPT !.pc = "labels", !.todo = <<>>, !.files = <<>>,
              !.lines = Append(@, <<"Folder not found", Head(s.todo)>>)]

\* lines 107-109: the folder is missing
FolderNotFound(s) ==
    Advance([s EXCEPT !.lines = Append(@, <<"Folder not found", Head(s.todo)>>)])

\* lines 110-111: the folder is listed
ListFolder(s, fs) ==
    IF fs = <<>> THEN Advance(s) ELSE [s EXCEPT !.pc = "files", !.files = fs]

\* the end of one turn of "for f in files"
NextFile(s) ==
    IF Len(s.files) = 1 THEN Advance(s) ELSE [s EXCEPT !.files = Tail(@)]

\* a loader whose first failing file ends the loop over the folder
LoadFileErrorBreak(s) ==
    Advance([s EXCEPT !.tried = Append(@, <<Head(s.todo), Head(s.files)>>),
                      !.lines = Append(@, <<"Error loading", <<Head(s.todo), Head(s.files)>> >>)])

\* a loader that appends the label before the file is decoded
LoadFileErrorLabelKept(s) ==
    NextFile([s EXCEPT !.tried = Append(@, <<Head(s.todo), Head(s.files)>>),
                       !.Y = Append(@, s.idx),
                       !.lines = Append(@, <<"Error loading", <<Head(s.todo), Head(s.files)>> >>)])

\* lines 136-137: librosa.load raised
LoadFileError(s) ==
    NextFile([s EXCEPT !.tried = Append(@, <<Head(s.todo), Head(s.files)>>),
                       !.lines = Append(@, <<"Error loading", <<Head(s.todo), Head(s.files)>> >>)])

\* lines 116-131 for each waveform a file of dataset/ may hold: the mel
\* spectrogram in dB, padded or truncated to MAX_LEN frames
FeatureTable ==
    [w \in {FileWaveform(f) : f \in FileNames} |-> PadOrTruncate(MelDb(w))]

\* lines 114-135: the file is decoded, its features are appended to X and
\* the index of its label to Y
LoadFileOk(s, data) ==
    NextFile([s EXCEPT !.tried = Append(@, <<Head(s.todo), Head(s.files)>>),
                       !.X = Append(@, FeatureTable[data]),
                       !.Y = Append(@, s.idx),
                       !.src = Append(@, <<Head(s.todo), Head(s.files)>>)])

\* np.array(X).shape, each entry of X having got its channel axis
ArrayShape(Xs) ==
    IF Xs = <<>> THEN <<0>> ELSE <<Len(Xs), Len(Xs[1][1]), Len(Xs[1]), 1>>

\* lines 138-141: the lists become arrays and the loader returns
EndLoad(s) ==
    [s EXCEPT !.pc = "loaded",
              !.lines = Append(@, <<"Loaded dataset", ArrayShape(s.X)>>)]

\* _train, lines 164-168: the check for an empty dataset and the split with
\* test_size = p/100; a ValueError of the split ends the thread
CheckAndSplit(s, p) ==
    IF Len(s.X) = 0
    THEN [s EXCEPT !.pc = "empty", !.lines = Append(@, <<"Dataset is empty", <<>> >>)]
    ELSE LET r == SeededSplit(s.Y, p)
         IN  IF r.status = "ValueError"
             THEN [s EXCEPT !.pc = "raised"]
             ELSE [s EXCEPT !.pc = "split", !.train = r.train, !.test = r.test]

\* f"{base_name}_{i}.h5"
ModelPath(base_name, i) == base_name \o "_" \o ToString(i) \o ".h5"

\* _auto_save_model, lines 202-205: the first number whose file does not exist
FreePath(base_name, files) ==
    LET i == CHOOSE n \in 1..(Cardinality(files) + 1) :
                 /\ ~ \E d \in files : d.path = ModelPath(base_name, n)
                 /\ \A k \in 1..(n - 1) : \E d \in files : d.path = ModelPath(base_name, k)
    IN  ModelPath(base_name, i)

\* {i: l for i, l in enumerate(self.labels)}
LabelMap(ls) == [i \in 0..(Len(ls) - 1) |-> ls[i + 1]]

\* json.dump(labelmap, f): the integer keys are written as strings
JsonDump(d) ==
    [k \in {ToString(i) : i \in DOMAIN d} |-> d[CHOOSE i \in DOMAIN d : ToString(i) = k]]

\* json.load(f): a dict whose keys are the strings of the file
JsonLoad(text) == text

\* d.get(k, default)
Get(d, k, default) == IF k \in DOMAIN d THEN d[k] ELSE default

\* self.label_maps[group].get(str(idx), f"Label {idx}")
LookupLabel(label_map, idx) ==
    Get(label_map, ToString(idx), "Label " \o ToString(idx))

\* the number of group slots of the inference window that get a model
MaxLoads == 1

\* the file the user names in the dialog of "Save Model"
SavePaths == {"my.h5"}

(***************************************************************************)
(* The recording collector (LayMau.py)                                     *)
(***************************************************************************)
\* what the user may have typed into the "Label" entry
EntryLabels == {"", " ", "Bat", "Thu 1"}

\* the recordings sd.rec may return
Takes == {<<10>>, <<-40>>}

\* the largest number a saved file gets
MaxNum == 2

\* self.entry_label.get().strip() followed by
\* re.sub(r'[^A-Za-z0-9_\-]', '_', label)
CleanLabel(entry) ==
    CASE entry = ""      -> ""
      [] entry = " "     -> ""
      [] entry = "Thu 1" -> "Thu_1"
      [] OTHER           -> entry

\* '{num:04d}'
Pad4(num) ==
    IF num < 10 THEN "000" \o ToString(num)
    ELSE IF num < 100 THEN "00" \o ToString(num)
    ELSE IF num < 1000 THEN "0" \o ToString(num)
    ELSE ToString(num)

\* FILENAME_TEMPLATE.format(label=label, num=num)
FileName(label, num) == label \o "_" \o Pad4(num) \o ".wav"

\* pat.search(f) for pat = re.escape(label) + r'_(\d+)\.wav$', IGNORECASE,
\* on the name of the file f.  The search is not anchored at the start, but
\* no label of EntryLabels is the end of another one
PatSearch(label, f) == f.label = label

\* _next_number_for_label(label) over the files of os.listdir(OUTPUT_DIR)
NextNumberForLabel(label, files) ==
    LET nums == {f.num : f \in {g \in files : PatSearch(label, g)}}
    IN  IF nums = {} THEN 1
        ELSE (CHOOSE n \in nums : \A k \in nums : k <= n) + 1

\* re.match(r'([^_]+)_(\d+)\.wav$', f, IGNORECASE): the label is what
\* stands before the first underscore, so a name whose label holds an
\* underscore does not match
SortMatches(f) == f.label = "Bat"

\* sf.write(filepath, ...) and os.replace(src, dest): the file of that name
\* in the directory is created or replaced
PutFile(dir, f) ==
    {g \in dir : FileName(g.label, g.num) # FileName(f.label, f.num)} \cup {f}

(***************************************************************************)
(* State                                                                   *)
(***************************************************************************)
VARIABLES
    pc,            \* position of the per-clip run (Spec, SpecFeatures)
    y,             \* the waveform loaded from the selected file
    top_db,        \* DatasetBuilder.top_db
    min_duration,  \* DatasetBuilder.min_duration, in tenths of a second
    method,        \* DatasetBuilder.method
    intervals,     \* DatasetBuilder.intervals
    sel,           \* the locals (s, e) of the 'longest' branch
    proc,          \* the selected segment before the min_duration rule
    processed_y,   \* DatasetBuilder.processed_y
    log,           \* the lines _log has written, each <<text, path>>
    mfe,           \* the trainer's local mfe before pad/truncate
    feat,          \* the trainer's local mfe after pad/truncate
    dataset_dirs,  \* the label folders that exist under dataset/
    dataset,       \* the files under dataset/: [label, name, data]
    job,           \* the worker thread of _process_label
    runs,          \* worker threads started so far
    X,             \* the trainer's list X
    Y,             \* the trainer's list Y
    Xsrc,          \* for each entry of X, the file it was computed from
    test_split,    \* VoiceTrainer.test_split, in hundredths
    class_counts,  \* the numbers of examples per label handed to the split
    split,         \* what train_test_split returned for them
    unreadable,    \* the files under dataset/ that librosa.load cannot decode
    model_type,    \* VoiceTrainer.model_type
    labels,        \* VoiceTrainer.labels
    model,         \* VoiceTrainer.model
    thr,           \* the threads of _train: position and locals
    h5_files,      \* the <Model>_<num>.h5 files written
    json_files,    \* the <Model>_<num>.h5_labels.json files written
    models,        \* VoiceTestGUI.models, with the file each came from
    label_maps,    \* VoiceTestGUI.label_maps
    result_vars,   \* VoiceTestGUI.result_vars
    temp_data,     \* App.temp_data of the recording collector
    last_file,     \* App.last_file
    rec_root,      \* the wav files directly under recordings/
    rec_sorted     \* the wav files in the label folders under recordings/

vars == <<pc, y, top_db, min_duration, method, intervals, sel, proc,
          processed_y, log, mfe, feat, dataset_dirs, dataset, job, runs,
          X, Y, Xsrc, test_split, class_counts, split, unreadable,
          model_type, labels, model, thr, h5_files, json_files,
          models, label_maps, result_vars,
          temp_data, last_file, rec_root, rec_sorted>>

clipVars == <<pc, y, intervals, sel, proc, processed_y, mfe, feat>>

configVars == <<top_db, min_duration, method>>

buildVars == <<dataset_dirs, dataset, job, runs>>

trainVars == <<X, Y, Xsrc>>

splitVars == <<test_split, class_counts, split>>

\* the variables of the trainer's window and threads
trainerVars == <<unreadable, model_type, labels, model, thr, h5_files, json_files>>

\* the variables of the inference window
inferVars == <<models, label_maps, result_vars>>

\* the variables of the recording collector
collectVars == <<temp_data, last_file, rec_root, rec_sorted>>

laterVars == <<splitVars, trainerVars, inferVars, collectVars>>

NoSplit == [status |-> "none", train |-> <<>>, test |-> <<>>]

\* no worker thread is running.  queue and total are the locals of
\* _process_all_worker and all tells that it is the running worker
IdleJob ==
    [pc |-> "idle", label |-> "", files |-> <<>>, count |-> 0,
     all |-> FALSE, queue |-> <<>>, total |-> 0]

\* DatasetBuilder.__init__ / VoiceTrainer.__init__: nothing selected,
\* nothing processed, dataset/ exists and is empty (os.makedirs(OUTPUT_DIR))
NoClip ==
    /\ intervals = <<>>
    /\ sel = <<>>
    /\ proc = <<>>
    /\ processed_y = <<>>
    /\ mfe = <<>>
    /\ feat = <<>>

NoBuild ==
    /\ dataset_dirs = {}
    /\ dataset = {}
    /\ job = IdleJob
    /\ runs = 0
    /\ X = <<>>
    /\ Y = <<>>
    /\ Xsrc = <<>>
    /\ log = <<>>

\* App.__init__ of the recording collector, with recordings/ empty
NewApp ==
    /\ temp_data = <<>>
    /\ last_file = <<>>
    /\ rec_root = {}
    /\ rec_sorted = {}

\* VoiceTestGUI.__init__: no model, empty label maps, empty result boxes
NewTestGUI ==
    /\ NewApp
    /\ models = [g \in Groups |-> <<>>]
    /\ label_maps = [g \in Groups |-> <<>>]
    /\ result_vars = [g \in Groups |-> ""]

\* VoiceTrainer.__init__: test_split = 0.2, nothing split
NoTrainer ==
    /\ NewTestGUI
    /\ test_split = 20
    /\ class_counts = <<>>
    /\ split = NoSplit
    /\ unreadable = {}
    /\ model_type = "Action"
    /\ labels = <<>>
    /\ model = <<>>
    /\ thr = [t \in Threads |-> IdleThread]
    /\ h5_files = {}
    /\ json_files = {}

(***************************************************************************)
(* Spec: one clip through _load_file, for every waveform and setting       *)
(***************************************************************************)
Init ==
    /\ pc = "loaded"
    /\ y \in Waveforms
    /\ top_db \in TopDbs
    /\ min_duration \in MinDurations
    /\ method \in Methods
    /\ NoClip
    /\ NoBuild
    /\ NoTrainer

\* DatasetBuilder._load_file after librosa.load: _prepare_processed(y)
LoadFile ==
    /\ pc = "loaded"
    /\ pc' = "prepared"
    /\ \E r \in {PrepareProcessed(y, top_db, method, min_duration)} :
           /\ intervals' = r.intervals
           /\ sel' = r.sel
           /\ proc' = r.proc
           /\ processed_y' = r.processed_y
           /\ log' = log \o AsTuple([i \in 1..Len(r.lines) |-> <<r.lines[i], "clip">>])
    /\ UNCHANGED <<y, mfe, feat>>
    /\ UNCHANGED <<configVars, buildVars, trainVars>>
    /\ UNCHANGED laterVars

Next == LoadFile

Spec == Init /\ [][Next]_vars

(***************************************************************************)
(* SpecFeatures: the trainer's feature extraction, for every waveform      *)
(***************************************************************************)
InitFeatures ==
    /\ pc = "file"
    /\ y \in Waveforms
    /\ top_db = 25
    /\ min_duration = 2
    /\ method = "longest"
    /\ NoClip
    /\ NoBuild
    /\ NoTrainer

\* the body of the per-file loop of VoiceTrainer._load_dataset (and of
\* VoiceTestGUI._predict) for a file holding the waveform y
ExtractFeatures ==
    /\ pc = "file"
    /\ pc' = "done"
    /\ mfe' = MelDb(y)
    /\ feat' = PadOrTruncate(MelDb(y))
    /\ UNCHANGED <<y, intervals, sel, proc, processed_y, log>>
    /\ UNCHANGED <<configVars, buildVars, trainVars>>
    /\ UNCHANGED laterVars

NextFeatures == ExtractFeatures

SpecFeatures == InitFeatures /\ [][NextFeatures]_vars

(***************************************************************************)
(* SpecBuild: the builder's worker thread, the entries of its window and   *)
(* the trainer's loader                                                    *)
(***************************************************************************)
InitBuild ==
    /\ pc = "off"
    /\ y = <<>>
    /\ top_db = 25
    /\ min_duration = 2
    /\ method = "longest"
    /\ NoClip
    /\ NoBuild
    /\ NoTrainer

\* the user edits the "top_db" entry
SetTopDb(v) ==
    /\ v # top_db
    /\ top_db' = v
    /\ UNCHANGED <<min_duration, method, log>>
    /\ UNCHANGED <<clipVars, buildVars, trainVars>>
    /\ UNCHANGED laterVars

\* the user edits the "min_duration" entry
SetMinDuration(v) ==
    /\ v # min_duration
    /\ min_duration' = v
    /\ UNCHANGED <<top_db, method, log>>
    /\ UNCHANGED <<clipVars, buildVars, trainVars>>
    /\ UNCHANGED laterVars

\* the user picks the other method
SetMethod(v) ==
    /\ v # method
    /\ method' = v
    /\ UNCHANGED <<top_db, min_duration, log>>
    /\ UNCHANGED <<clipVars, buildVars, trainVars>>
    /\ UNCHANGED laterVars

\* _process_label, lines 245-249: makedirs, listdir, count = 0
BeginLabel(j, l) ==
    [j EXCEPT !.pc = "loop", !.label = l, !.files = Recordings(l), !.count = 0]

\* DatasetBuilder._process_selected_label: the thread is started and
\* _process_label runs up to its loop (makedirs, listdir)
ProcessSelectedLabel(l) ==
    /\ job.pc = "idle"
    /\ runs < MaxRuns
    /\ runs' = runs + 1
    /\ dataset_dirs' = dataset_dirs \cup {l}
    /\ job' = BeginLabel(IdleJob, l)
    /\ UNCHANGED <<dataset, log>>
    /\ UNCHANGED <<clipVars, configVars, trainVars>>
    /\ UNCHANGED laterVars

\* DatasetBuilder._process_all_labels: the label folders are listed, in
\* arbitrary order, and the thread of _process_all_worker is started
ProcessAllLabels ==
    /\ job.pc = "idle"
    /\ runs = 0
    /\ runs' = runs + 1
    /\ \E q \in Perms(RecLabels) :
           job' = [IdleJob EXCEPT !.pc = "labels", !.all = TRUE, !.queue = AsTuple(q)]
    /\ UNCHANGED <<dataset_dirs, dataset, log>>
    /\ UNCHANGED <<clipVars, configVars, trainVars>>
    /\ UNCHANGED laterVars

\* _process_all_worker, lines 290-292: 'Start label', and _process_label
\* up to its loop
StartLabel ==
    /\ job.pc = "labels"
    /\ job.queue # <<>>
    /\ log' = Append(log, <<"Start label", Head(job.queue)>>)
    /\ dataset_dirs' = dataset_dirs \cup {Head(job.queue)}
    /\ job' = BeginLabel(job, Head(job.queue))
    /\ UNCHANGED <<dataset, runs>>
    /\ UNCHANGED <<clipVars, configVars, trainVars>>
    /\ UNCHANGED laterVars

\* sf.write(out_path, ...): the file is created or overwritten
WriteFile(files, l, f, data) ==
    {d \in files : ~(d.label = l /\ d.name = f)}
        \cup {[label |-> l, name |-> f, data |-> data]}

\* the next turn of "for f in files"
NextRecording(j) == [j EXCEPT !.files = Tail(@)]

\* one iteration of the loop of _process_label
ProcessFile ==
    /\ job.pc = "loop"
    /\ job.files # <<>>
    /\ LET f == Head(job.files)
       IN  IF f \in BadRecordings
           THEN /\ dataset' = dataset
                /\ job' = NextRecording(job)
                /\ log' = Append(log, <<"Error processing", <<job.label, f>> >>)
           ELSE \E r \in {ProcessOne(FileWave(f), top_db, method, min_duration)} :
                    IF r.outcome = "written"
                    THEN /\ dataset' = WriteFile(dataset, job.label, f, r.data)
                         /\ job' = [NextRecording(job) EXCEPT !.count = @ + 1]
                         /\ log' = log
                    ELSE /\ dataset' = dataset
                         /\ job' = NextRecording(job)
                         /\ log' = Append(log, <<r.outcome, <<job.label, f>> >>)
    /\ UNCHANGED <<dataset_dirs, runs>>
    /\ UNCHANGED <<clipVars, configVars, trainVars>>
    /\ UNCHANGED laterVars

\* the end of _process_label; in _process_all_worker the next label follows
FinishLabel ==
    /\ job.pc = "loop"
    /\ job.files = <<>>
    /\ log' = Append(log, <<"Processed label", job.label, job.count>>)
    /\ job' = IF job.all
              THEN [job EXCEPT !.pc = "labels", !.queue = Tail(@), !.total = @ + 1]
              ELSE IdleJob
    /\ UNCHANGED <<dataset_dirs, dataset, runs>>
    /\ UNCHANGED <<clipVars, configVars, trainVars>>
    /\ UNCHANGED laterVars

\* the end of _process_all_worker
DoneProcessing ==
    /\ job.pc = "labels"
    /\ job.queue = <<>>
    /\ log' = Append(log, <<"Done processing", job.total>>)
    /\ job' = IdleJob
    /\ UNCHANGED <<dataset_dirs, dataset, runs>>
    /\ UNCHANGED <<clipVars, configVars, trainVars>>
    /\ UNCHANGED laterVars

\* os.listdir(dataset/<label>) filtered on ".wav"
DatasetFiles(l) ==
    SelectSeq(Recordings(l), LAMBDA f : \E d \in dataset : d.label = l /\ d.name = f)

FileData(l, f) == (CHOOSE d \in dataset : d.label = l /\ d.name = f).data

\* the examples of one label: for each file the tensor, the index and the path
LabelExamples(selected_labels, idx) ==
    LET l == selected_labels[idx]
    IN  IF l \notin dataset_dirs THEN <<>>
        ELSE AsTuple([i \in 1..Len(DatasetFiles(l)) |->
                 [x   |-> PadOrTruncate(MelDb(FileData(l, DatasetFiles(l)[i]))),
                  y   |-> idx - 1,
                  src |-> <<l, DatasetFiles(l)[i]>>]])

\* VoiceTrainer._load_dataset(base_dir) for the group "Action"
LoadDataset ==
    \E ex \in {ConcatAll(AsTuple([idx \in 1..Len(ActionLabels) |->
                                     LabelExamples(ActionLabels, idx)]))} :
        /\ X' = AsTuple([i \in 1..Len(ex) |-> ex[i].x])
        /\ Y' = AsTuple([i \in 1..Len(ex) |-> ex[i].y])
        /\ Xsrc' = AsTuple([i \in 1..Len(ex) |-> ex[i].src])
        /\ UNCHANGED log
        /\ UNCHANGED <<clipVars, configVars, buildVars>>
        /\ UNCHANGED laterVars

NextBuild ==
    \/ \E v \in TopDbs : SetTopDb(v)
    \/ \E v \in MinDurations : SetMinDuration(v)
    \/ \E v \in Methods : SetMethod(v)
    \/ \E l \in RecLabels : ProcessSelectedLabel(l)
    \/ ProcessFile
    \/ FinishLabel
    \/ LoadDataset

SpecBuild == InitBuild /\ [][NextBuild]_vars

(***************************************************************************)
(* SpecBuildAll: "Process all labels" is pressed once, and the entries of  *)
(* the builder's window are edited while its worker runs                   *)
(***************************************************************************)
NextBuildAll ==
    \/ \E v \in TopDbs : SetTopDb(v)
    \/ \E v \in MinDurations : SetMinDuration(v)
    \/ \E v \in Methods : SetMethod(v)
    \/ ProcessAllLabels
    \/ StartLabel
    \/ ProcessFile
    \/ FinishLabel
    \/ DoneProcessing

SpecBuildAll == InitBuild /\ [][NextBuildAll]_vars

(***************************************************************************)
(* SpecSplit: the stratified split of _train, for every number of examples *)
(* per label and every test split                                          *)
(***************************************************************************)
InitSplit ==
    /\ pc = "loaded"
    /\ y = <<>>
    /\ top_db = 25
    /\ min_duration = 2
    /\ method = "longest"
    /\ NoClip
    /\ NoBuild
    /\ test_split \in TestSplits
    /\ class_counts \in ClassCounts
    /\ split = NoSplit
    /\ unreadable = {}
    /\ model_type = "Action"
    /\ labels = <<>>
    /\ model = <<>>
    /\ thr = [t \in Threads |-> IdleThread]
    /\ h5_files = {}
    /\ json_files = {}
    /\ NewTestGUI

\* the call of train_test_split in VoiceTrainer._train
TrainTestSplit ==
    /\ pc = "loaded"
    /\ pc' = "split"
    /\ split' \in StratifiedCounts(class_counts, test_split)
    /\ UNCHANGED <<test_split, class_counts, log, trainerVars, inferVars, collectVars>>
    /\ UNCHANGED <<y, intervals, sel, proc, processed_y, mfe, feat>>
    /\ UNCHANGED <<configVars, buildVars, trainVars>>

NextSplit == TrainTestSplit

SpecSplit == InitSplit /\ [][NextSplit]_vars

(***************************************************************************)
(* SpecTrain: the trainer's window and its threads, for every state of the *)
(* folders dataset/Bat and dataset/Tat and every test split                *)
(***************************************************************************)
restVars == <<clipVars, configVars, buildVars, trainVars, splitVars, inferVars,
              collectVars, log>>

\* dataset/ with the folders of Bat and Tat in the states st
DatasetIs(st) ==
    LET all == [l \in VariedLabels \cup {"Bep"} |->
                   IF l = "Bep" THEN BepFolder ELSE st[l]]
    IN  /\ dataset_dirs = {l \in DOMAIN all : all[l].exists}
        /\ dataset = UNION {FolderFiles(l, all[l]) : l \in DOMAIN all}
        /\ unreadable = UNION {{<<l, f>> : f \in all[l].bad} : l \in DOMAIN all}

\* the builder's window is not in use
NoBuilder ==
    /\ pc = "off"
    /\ y = <<>>
    /\ top_db = 25
    /\ min_duration = 2
    /\ method = "longest"
    /\ NoClip
    /\ job = IdleJob
    /\ runs = 0
    /\ X = <<>>
    /\ Y = <<>>
    /\ Xsrc = <<>>
    /\ log = <<>>
    /\ class_counts = <<>>
    /\ split = NoSplit
    /\ NewTestGUI

\* VoiceTrainer.__init__
NewTrainer ==
    /\ model_type = "Action"
    /\ labels = <<>>
    /\ model = <<>>
    /\ h5_files = {}
    /\ json_files = {}

\* Train is pressed once
InitTrain ==
    /\ NoBuilder
    /\ NewTrainer
    /\ \E st \in [VariedLabels -> FolderStates] : DatasetIs(st)
    /\ test_split \in TestSplits
    /\ thr = [t \in Threads |-> IF t = "t1" THEN IdleThread
                                ELSE [IdleThread EXCEPT !.pc = "unused"]]

\* the user picks another entry of the "Type" combo box
SetModelType(g) ==
    /\ g # model_type
    /\ model_type' = g
    /\ UNCHANGED <<unreadable, labels, model, thr, h5_files, json_files>>
    /\ UNCHANGED restVars

\* _train_thread: the thread starts and _load_dataset runs up to its loop
TrainThread(t) ==
    /\ thr[t].pc = "idle"
    /\ t = "t2" => thr["t1"].pc # "idle"
    /\ labels' = LABEL_GROUPS[model_type]
    /\ thr' = [thr EXCEPT ![t] = BeginLoad(@, LABEL_GROUPS[model_type])]
    /\ UNCHANGED <<unreadable, model_type, model, h5_files, json_files>>
    /\ UNCHANGED restVars

\* one turn of the loop over the labels, up to the loop over its files
LoadLabel(t) ==
    /\ thr[t].pc = "labels"
    /\ thr[t].todo # <<>>
    /\ IF Head(thr[t].todo) \notin dataset_dirs
       THEN thr' = [thr EXCEPT ![t] = FolderNotFound(@)]
       ELSE \E fs \in ListDir(dataset, Head(thr[t].todo)) :
                thr' = [thr EXCEPT ![t] = ListFolder(@, fs)]
    /\ UNCHANGED <<unreadable, model_type, labels, model, h5_files, json_files>>
    /\ UNCHANGED restVars

\* one turn of the loop over the files of a label
LoadOneFile(t) ==
    /\ thr[t].pc = "files"
    /\ \E s \in {IF <<Head(thr[t].todo), Head(thr[t].files)>> \in unreadable
                 THEN LoadFileError(thr[t])
                 ELSE LoadFileOk(thr[t], FileData(Head(thr[t].todo), Head(thr[t].files)))} :
           thr' = [thr EXCEPT ![t] = s]
    /\ UNCHANGED <<unreadable, model_type, labels, model, h5_files, json_files>>
    /\ UNCHANGED restVars

\* the end of _load_dataset
FinishLoad(t) ==
    /\ thr[t].pc = "labels"
    /\ thr[t].todo = <<>>
    /\ thr' = [thr EXCEPT ![t] = EndLoad(@)]
    /\ UNCHANGED <<unreadable, model_type, labels, model, h5_files, json_files>>
    /\ UNCHANGED restVars

\* _train after _load_dataset: "Dataset is empty", or train_test_split
SplitData(t) ==
    /\ thr[t].pc = "loaded"
    /\ thr' = [thr EXCEPT ![t] = CheckAndSplit(@, test_split)]
    /\ UNCHANGED <<unreadable, model_type, labels, model, h5_files, json_files>>
    /\ UNCHANGED restVars

\* self.model = self._build_model(..., len(self.labels))
BuildModel(t) ==
    /\ thr[t].pc = "split"
    /\ model' = [num_classes |-> Len(labels), fits |-> <<>>]
    /\ thr' = [thr EXCEPT ![t].pc = "built",
                          ![t].lines = Append(@, <<"Start training...", <<>> >>)]
    /\ UNCHANGED <<unreadable, model_type, labels, h5_files, json_files>>
    /\ UNCHANGED restVars

\* self.model.fit(X_train, y_train, ...): the model self.model holds now is
\* fitted to the indices of this thread's labels
Fit(t) ==
    /\ thr[t].pc = "built"
    /\ model' = [model EXCEPT !.fits = Append(@, thr[t].selected_labels)]
    /\ thr' = [thr EXCEPT ![t].pc = "fitted",
                          ![t].lines = Append(@, <<"Training done.", <<>> >>)]
    /\ UNCHANGED <<unreadable, model_type, labels, h5_files, json_files>>
    /\ UNCHANGED restVars

\* _auto_save_model, lines 201-205: the loop over os.path.exists ends at
\* the first number whose file does not exist now
PickPath(t) ==
    /\ thr[t].pc = "fitted"
    /\ thr' = [thr EXCEPT ![t].pc = "picked",
                          ![t].path = FreePath(model_type, h5_files)]
    /\ UNCHANGED <<unreadable, model_type, labels, model, h5_files, json_files>>
    /\ UNCHANGED restVars

\* _auto_save_model, line 206: self.model.save(path) creates the file or
\* replaces the one of that name
SaveModel(t) ==
    /\ thr[t].pc = "picked"
    /\ h5_files' = {d \in h5_files : d.path # thr[t].path}
                       \cup {[path |-> thr[t].path, model |-> model]}
    /\ thr' = [thr EXCEPT ![t].pc = "saving"]
    /\ UNCHANGED <<unreadable, model_type, labels, model, json_files>>
    /\ UNCHANGED restVars

\* _auto_save_model, lines 207-210: the label map is written beside the model
SaveLabels(t) ==
    /\ thr[t].pc = "saving"
    /\ json_files' = {d \in json_files : d.path # thr[t].path \o "_labels.json"}
                        \cup {[path |-> thr[t].path \o "_labels.json",
                               text |-> JsonDump(LabelMap(labels))]}
    /\ thr' = [thr EXCEPT ![t].pc = "saved",
                          ![t].lines = Append(@, <<"Model auto-saved to", thr[t].path>>)]
    /\ UNCHANGED <<unreadable, model_type, labels, model, h5_files>>
    /\ UNCHANGED restVars

NextTrain ==
    \/ \E g \in Groups : SetModelType(g)
    \/ \E t \in Threads : TrainThread(t)
    \/ \E t \in Threads : LoadLabel(t)
    \/ \E t \in Threads : LoadOneFile(t)
    \/ \E t \in Threads : FinishLoad(t)
    \/ \E t \in Threads : SplitData(t)
    \/ \E t \in Threads : BuildModel(t)
    \/ \E t \in Threads : Fit(t)
    \/ \E t \in Threads : PickPath(t)
    \/ \E t \in Threads : SaveModel(t)
    \/ \E t \in Threads : SaveLabels(t)

SpecTrain == InitTrain /\ [][NextTrain]_vars

\* a thread that has started keeps running: the steps of its loader are
\* taken as long as one of them is possible
FairSpecTrain ==
    SpecTrain /\ \A t \in Threads :
                    WF_vars(LoadLabel(t) \/ LoadOneFile(t) \/ FinishLoad(t))

(***************************************************************************)
(* SpecTrainTwice: Train is pressed twice, the second time while the first *)
(* thread may still be running; dataset/Bat and dataset/Tat hold two clips *)
(***************************************************************************)
TwoClips == [exists |-> TRUE, files |-> {"a.wav", "B.WAV"}, bad |-> {}]

InitTrainTwice ==
    /\ NoBuilder
    /\ NewTrainer
    /\ DatasetIs([l \in VariedLabels |-> TwoClips])
    /\ test_split = 50
    /\ thr = [t \in Threads |-> IdleThread]

SpecTrainTwice == InitTrainTwice /\ [][NextTrain]_vars

(***************************************************************************)
(* SpecInfer: the trainer of SpecTrainTwice with its "Save Model" button,  *)
(* and the inference window loading the files it writes                    *)
(***************************************************************************)
\* the positions of a thread of _train that has returned or died
Ended == {"empty", "raised", "saved"}

\* _save_model: self.model and the label map of self.labels are written to
\* the path the user names.  The button is pressed when no thread runs.
SaveModelAs(path) ==
    /\ \A t \in Threads : thr[t].pc \in Ended
    /\ model # <<>>
    /\ h5_files' = {d \in h5_files : d.path # path}
                       \cup {[path |-> path, model |-> model]}
    /\ json_files' = {d \in json_files : d.path # path \o "_labels.json"}
                         \cup {[path |-> path \o "_labels.json",
                                text |-> JsonDump(LabelMap(labels))]}
    /\ UNCHANGED <<unreadable, model_type, labels, model, thr>>
    /\ UNCHANGED restVars

\* VoiceTestGUI._load_model(group_name) with the file d chosen in the dialog.
\* The inference window is used once the trainer's threads have ended.
LoadModel(g, d) ==
    /\ \A t \in Threads : thr[t].pc \in Ended
    /\ d \in h5_files
    /\ Cardinality({k \in Groups : models[k] # <<>>} \cup {g}) <= MaxLoads
    /\ models' = [models EXCEPT ![g] = d]
    /\ IF \E j \in json_files : j.path = d.path \o "_labels.json"
       THEN \E j \in json_files :
                /\ j.path = d.path \o "_labels.json"
                /\ label_maps' = [label_maps EXCEPT ![g] = JsonLoad(j.text)]
       ELSE UNCHANGED label_maps
    /\ UNCHANGED <<result_vars, trainerVars>>
    /\ UNCHANGED <<clipVars, configVars, buildVars, trainVars, splitVars, collectVars, log>>

\* VoiceTestGUI._predict: each loaded model names a class index idx[g], and
\* the result box of its group shows the label found for it
Predict ==
    /\ \E g \in Groups : models[g] # <<>>
    /\ \E idx \in [Groups -> 0..2] :
           /\ \A g \in Groups :
                  idx[g] < (IF models[g] = <<>> THEN 1 ELSE models[g].model.num_classes)
           /\ result_vars' =
                  [g \in Groups |->
                      IF models[g] = <<>> THEN "No model loaded"
                      ELSE LookupLabel(label_maps[g], idx[g])]
    /\ UNCHANGED <<models, label_maps, trainerVars>>
    /\ UNCHANGED <<clipVars, configVars, buildVars, trainVars, splitVars, collectVars, log>>

NextInfer ==
    \/ NextTrain
    \/ \E path \in SavePaths : SaveModelAs(path)
    \/ \E g \in Groups : \E d \in h5_files : LoadModel(g, d)
    \/ Predict

SpecInfer == InitTrainTwice /\ [][NextInfer]_vars

(***************************************************************************)
(* SpecCollect: the recording collector                                    *)
(***************************************************************************)
InitCollect ==
    /\ NoBuilder
    /\ NewTrainer
    /\ dataset_dirs = {}
    /\ dataset = {}
    /\ unreadable = {}
    /\ test_split = 20
    /\ thr = [t \in Threads |-> IdleThread]

\* on_record: the thread's task, once sd.wait() has returned
OnRecord(data) ==
    /\ temp_data' = data
    /\ UNCHANGED <<last_file, rec_root, rec_sorted>>
    /\ UNCHANGED <<clipVars, configVars, buildVars, trainVars, splitVars, log>>
    /\ UNCHANGED <<trainerVars, inferVars>>

\* on_save with the text entry in the "Label" entry
OnSave(entry) ==
    /\ temp_data # <<>>
    /\ CleanLabel(entry) # ""
    /\ \E num \in {NextNumberForLabel(CleanLabel(entry), rec_root)} :
           /\ num <= MaxNum
           /\ rec_root' = PutFile(rec_root, [label |-> CleanLabel(entry), num |-> num,
                                             data |-> temp_data])
           /\ last_file' = FileName(CleanLabel(entry), num)
    /\ UNCHANGED <<temp_data, rec_sorted>>
    /\ UNCHANGED <<clipVars, configVars, buildVars, trainVars, splitVars, log>>
    /\ UNCHANGED <<trainerVars, inferVars>>

RECURSIVE MoveAll(_, _)
\* the loop of on_sort over the files to move: os.replace(src, dest)
MoveAll(files, sorted) ==
    IF files = {} THEN sorted
    ELSE LET f == CHOOSE g \in files : TRUE
         IN  MoveAll(files \ {f}, PutFile(sorted, f))

\* on_sort
OnSort ==
    /\ rec_sorted' = MoveAll({f \in rec_root : SortMatches(f)}, rec_sorted)
    /\ rec_root' = {f \in rec_root : ~ SortMatches(f)}
    /\ UNCHANGED <<temp_data, last_file>>
    /\ UNCHANGED <<clipVars, configVars, buildVars, trainVars, splitVars, log>>
    /\ UNCHANGED <<trainerVars, inferVars>>

NextCollect ==
    \/ \E data \in Takes : OnRecord(data)
    \/ \E entry \in EntryLabels : OnSave(entry)
    \/ OnSort

SpecCollect == InitCollect /\ [][NextCollect]_vars

(***************************************************************************)
(* Properties of the per-clip functions                                    *)
(***************************************************************************)
Span(iv) == iv[2] - iv[1]

MaxSpan(ivs) == MaxSeq(AsTuple([i \in 1..Len(ivs) |-> Span(ivs[i])]))

RECURSIVE CoveredFrom(_, _, _)
\* the samples of w from position i on that lie inside an interval of ivs,
\* in the order of the waveform
CoveredFrom(w, ivs, i) ==
    IF i > Len(w) THEN <<>>
    ELSE (IF \E j \in 1..Len(ivs) : ivs[j][1] < i /\ i <= ivs[j][2]
          THEN <<w[i]>> ELSE <<>>) \o CoveredFrom(w, ivs, i + 1)

LastLine == log[Len(log)][1]

\* C1: the feature matrix handed to X has exactly N_MFCC rows and exactly
\* MAX_LEN columns, whatever the length of the input (0 samples, less than
\* one analysis frame, many more frames than MAX_LEN).
C1_FeatureShape ==
    pc = "done" =>
        /\ Len(feat) = MAX_LEN
        /\ \A k \in 1..Len(feat) : Len(feat[k]) = N_MFCC

C1_LongInput ==
    /\ pc = "done"
    /\ Len(y) > FRAME_LENGTH
    /\ Len(mfe) > MAX_LEN + 1
    /\ Len(feat) = MAX_LEN

\* C2: pad/truncate keeps the first min(actualFrames, MAX_LEN) columns
\* unchanged and in order; with fewer frames every added column is on the
\* right and all zeros; with more frames exactly the columns from MAX_LEN on
\* are dropped; with exactly MAX_LEN frames the matrix is unchanged.
C2_PadTruncate ==
    pc = "done" =>
        /\ \A k \in 1..Min2(Len(mfe), MAX_LEN) : feat[k] = mfe[k]
        /\ Len(mfe) < MAX_LEN =>
              /\ Len(feat) = MAX_LEN
              /\ \A k \in (Len(mfe) + 1)..MAX_LEN : feat[k] = ZeroColumn
        /\ Len(mfe) > MAX_LEN => feat = SubSeq(mfe, 1, MAX_LEN)
        /\ Len(mfe) = MAX_LEN => feat = mfe

C2_PaddedInput ==
    /\ pc = "done"
    /\ Len(mfe) < MAX_LEN
    /\ mfe[1] # ZeroColumn
    /\ feat[MAX_LEN] = ZeroColumn

\* C3: with method 'longest' and at least one interval, the segment selected
\* before the min_duration rule is the slice of one of the intervals and its
\* length is the greatest end-start of all intervals.
C3_LongestSpan ==
    (pc = "prepared" /\ method = "longest" /\ Len(intervals) > 0) =>
        /\ \E i \in 1..Len(intervals) :
               proc = Slice(y, intervals[i][1], intervals[i][2])
        /\ Len(proc) = MaxSpan(intervals)

C3_SeveralSpans ==
    /\ pc = "prepared"
    /\ method = "longest"
    /\ Len(intervals) >= 2
    /\ Span(intervals[1]) < Span(intervals[2])
    /\ Len(proc) = Span(intervals[2])

\* C4 as stated: among the intervals of greatest span, 'longest' selects the
\* one that starts earliest.
C4_TieEarliest ==
    (pc = "prepared" /\ method = "longest" /\ Len(intervals) > 0) =>
        \A i \in 1..Len(intervals) :
            Span(intervals[i]) = MaxSpan(intervals) => sel[1] <= intervals[i][1]

\* C4 amended: among the intervals of greatest span, 'longest' selects the
\* one that starts latest (the reversed sort orders equal spans by
\* descending start).
C4_TieLatest ==
    (pc = "prepared" /\ method = "longest" /\ Len(intervals) > 0) =>
        /\ \E i \in 1..Len(intervals) : sel = intervals[i]
        /\ Span(sel) = MaxSpan(intervals)
        /\ \A i \in 1..Len(intervals) :
               Span(intervals[i]) = MaxSpan(intervals) => intervals[i][1] <= sel[1]

C4_Tie ==
    /\ pc = "prepared"
    /\ method = "longest"
    /\ \E i, j \in 1..Len(intervals) :
           /\ i < j
           /\ Span(intervals[i]) = MaxSpan(intervals)
           /\ Span(intervals[j]) = MaxSpan(intervals)
           /\ sel = intervals[j]

\* C5: with method 'concat' the segment selected before the min_duration
\* rule has the summed length of all intervals and holds exactly the samples
\* inside the intervals, in the order of the waveform; no sample of a gap
\* is included.
C5_Concat ==
    (pc = "prepared" /\ method = "concat" /\ Len(intervals) > 0) =>
        /\ Len(proc) = SumSeq(AsTuple([i \in 1..Len(intervals) |-> Span(intervals[i])]))
        /\ proc = CoveredFrom(y, intervals, 1)

C5_Gap ==
    /\ pc = "prepared"
    /\ method = "concat"
    /\ Len(intervals) >= 2
    /\ intervals[1][2] < intervals[2][1]
    /\ Len(proc) < Len(y)
    /\ Len(proc) = Span(intervals[1]) + Span(intervals[2])

\* C6: the selected segment is discarded exactly when its duration
\* len/SAMPLE_RATE is strictly less than min_duration; a segment of exactly
\* min_duration, or longer, is kept unchanged.
C6_Admission ==
    (pc = "prepared" /\ Len(intervals) > 0) =>
        IF Len(proc) * 10 < min_duration * SAMPLE_RATE
        THEN processed_y = <<>> /\ LastLine = "discarding"
        ELSE processed_y = proc /\ LastLine = "Processed length"

C6_ExactlyMinDuration ==
    /\ pc = "prepared"
    /\ Len(proc) > 0
    /\ Len(proc) * 10 = min_duration * SAMPLE_RATE
    /\ processed_y = proc

\* C7: with no interval the processed segment is the empty segment under
\* both methods; the selection code is not reached and nothing is raised
\* (the only line logged is the interval count).
C7_EmptyIntervals ==
    (pc = "prepared" /\ Len(intervals) = 0) =>
        /\ processed_y = <<>>
        /\ proc = <<>>
        /\ sel = <<>>
        /\ log = << <<"Intervals found", "clip">> >>

C7_NoIntervalConcat ==
    /\ pc = "prepared"
    /\ Len(intervals) = 0
    /\ method = "concat"
    /\ Len(y) > 0
    /\ processed_y = <<>>

\* C8 as stated: every interval satisfies 0 <= start < end <= len(y), and
\* the list is strictly ordered by start with no two intervals overlapping.
C8_IntervalsWellFormed ==
    pc = "prepared" =>
        /\ \A i \in 1..Len(intervals) :
               /\ 0 <= intervals[i][1]
               /\ intervals[i][1] < intervals[i][2]
               /\ intervals[i][2] <= Len(y)
        /\ \A i \in 1..(Len(intervals) - 1) :
               /\ intervals[i][1] < intervals[i + 1][1]
               /\ intervals[i][2] <= intervals[i + 1][1]

\* C9 as stated, for the waveforms of at least one sample: for an all-zero
\* waveform and top_db > 0 the interval list is empty.
C9_SilentNoIntervals ==
    (pc = "prepared" /\ top_db > 0 /\ Len(y) > 0 /\ \A i \in 1..Len(y) : y[i] = 0) =>
        Len(intervals) = 0

\* on a waveform of at least one sample the intervals are well formed
NonEmptyWellFormed == Len(y) > 0 => C8_IntervalsWellFormed

(***************************************************************************)
(* Properties of the dataset build                                         *)
(***************************************************************************)
\* the segment of a recording is empty: no interval was found, or the
\* selected segment is shorter than min_duration
SegmentEmpty(w, db, m, md) ==
    \/ Len(Split(w, db)) = 0
    \/ Len(Select(w, Split(w, db), m)) * 10 < md * SAMPLE_RATE

C12_Stratification ==
    (pc = "split" /\ class_counts = <<100, 20>> /\ test_split = 20)
        => /\ split.status = "ok"
           /\ split.test = <<20, 4>>
           /\ split.train = <<80, 16>>

C12_HundredAndTwenty ==
    /\ pc = "split"
    /\ class_counts = <<100, 20>>
    /\ test_split = 20
    /\ split.status = "ok"

C11_LabelIndex ==
    \A t \in Threads :
        \A i \in 1..Len(thr[t].Y) :
            /\ i <= Len(thr[t].src)
            /\ \E g \in Groups :
                   /\ thr[t].selected_labels = LABEL_GROUPS[g]
                   /\ thr[t].Y[i] + 1 \in 1..Len(LABEL_GROUPS[g])
                   /\ LABEL_GROUPS[g][thr[t].Y[i] + 1] = thr[t].src[i][1]

C11_EarlierLabelMissing ==
    /\ thr["t1"].pc = "loaded"
    /\ thr["t1"].selected_labels = LABEL_GROUPS["Action"]
    /\ "Bat" \notin dataset_dirs
    /\ \E i \in 1..Len(thr["t1"].lines) : thr["t1"].lines[i] = <<"Folder not found", "Bat">>
    /\ thr["t1"].Y = <<1, 1>>
    /\ thr["t1"].src[1][1] = "Tat"


\* the positions after _load_dataset has returned
AfterLoad == {"loaded", "empty", "raised", "split", "built", "fitted", "picked", "saving", "saved"}

\* the clips of the folder of label l that can be decoded
UsableFiles(l) ==
    {d.name : d \in {e \in dataset : e.label = l /\ IsWav(e.name) /\ <<l, e.name>> \notin unreadable}}

\* C16: when _load_dataset has returned, every label of the group whose
\* folder does not exist has been logged ("Folder not found") and has no
\* example, and every usable clip of every other label of the group has
\* been loaded, once.
C16_MissingFolder ==
    \A t \in Threads :
        thr[t].pc \in AfterLoad =>
            \A k \in 1..Len(thr[t].selected_labels) :
                LET l == thr[t].selected_labels[k]
                IN  IF l \notin dataset_dirs
                    THEN /\ \E i \in 1..Len(thr[t].lines) :
                                thr[t].lines[i] = <<"Folder not found", l>>
                         /\ \A i \in 1..Len(thr[t].src) : thr[t].src[i][1] # l
                    ELSE \A f \in UsableFiles(l) :
                             Cardinality({i \in 1..Len(thr[t].src) :
                                              thr[t].src[i] = <<l, f>>}) = 1

C16_OnlyLastFolderExists ==
    /\ thr["t1"].pc = "loaded"
    /\ thr["t1"].selected_labels = LABEL_GROUPS["Room"]
    /\ \E i \in 1..Len(thr["t1"].lines) : thr["t1"].lines[i] = <<"Folder not found", "Ngu">>
    /\ \E i \in 1..Len(thr["t1"].lines) : thr["t1"].lines[i] = <<"Folder not found", "Khach">>
    /\ Len(thr["t1"].src) = 2
    /\ \A i \in 1..2 : thr["t1"].src[i][1] = "Bep"


\* the clips of the folder of label l, decodable or not
WavFiles(l) == {d.name : d \in {e \in dataset : e.label = l /\ IsWav(e.name)}}

\* when _load_dataset has returned, thread t has attempted every clip of
\* every existing folder of its group once, has logged every clip that
\* failed and made an example of every other clip
AllFilesAttempted(t) ==
    /\ \A i \in 1..Len(thr[t].tried) :
           /\ thr[t].tried[i][1] \in dataset_dirs
           /\ thr[t].tried[i][2] \in WavFiles(thr[t].tried[i][1])
           /\ \E k \in 1..Len(thr[t].selected_labels) :
                  thr[t].selected_labels[k] = thr[t].tried[i][1]
    /\ \A k \in 1..Len(thr[t].selected_labels) :
           LET l == thr[t].selected_labels[k]
           IN  l \in dataset_dirs =>
                   \A f \in WavFiles(l) :
                       /\ Cardinality({i \in 1..Len(thr[t].tried) :
                                           thr[t].tried[i] = <<l, f>>}) = 1
                       /\ IF <<l, f>> \in unreadable
                          THEN /\ \E i \in 1..Len(thr[t].lines) :
                                      thr[t].lines[i] = <<"Error loading", <<l, f>> >>
                               /\ \A i \in 1..Len(thr[t].src) : thr[t].src[i] # <<l, f>>
                          ELSE \E i \in 1..Len(thr[t].src) : thr[t].src[i] = <<l, f>>

\* C17: a clip that fails to load is logged and skipped, and only it: when
\* the loader has returned, every other clip of the same label and of the
\* later labels has been attempted, each clip once; and the loader, once
\* started, does return, whichever clips fail.
C17_FailureSkipsOneFile ==
    /\ [](\A t \in Threads : thr[t].pc \in AfterLoad => AllFilesAttempted(t))
    /\ \A t \in Threads : (thr[t].pc = "labels") ~> (thr[t].pc \in AfterLoad)

C17_FailedFirstThenLoaded ==
    /\ thr["t1"].pc = "loaded"
    /\ unreadable = {<<"Bat", "a.wav">>, <<"Tat", "a.wav">>}
    /\ Len(thr["t1"].tried) = 6
    /\ thr["t1"].tried[1] = <<"Bat", "a.wav">>
    /\ thr["t1"].tried[4] = <<"Tat", "a.wav">>
    /\ Len(thr["t1"].src) = 4
    /\ thr["t1"].src[1][1] = "Bat"
    /\ thr["t1"].src[4][1] = "Tat"


(***************************************************************************)
(* Properties of the builder's worker                                      *)
(***************************************************************************)
\* the lines of the log that name the recording f of label l
LinesAbout(l, f) ==
    {k \in 1..Len(log) :
        /\ log[k][1] \in {"No activity", "Too short, skip", "Error processing"}
        /\ log[k][2] = <<l, f>>}

\* The builder's side of C17: when the worker of "Process all labels" has
\* ended, it has worked on every label, every recording that failed to load
\* is logged once and has no file under dataset/, and every other recording
\* of the same and of the later labels was handled once: written, or logged
\* as skipped.
BuilderFailureSkipsOneFile ==
    (job.pc = "idle" /\ runs = 1) =>
        /\ log[Len(log)] = <<"Done processing", Cardinality(RecLabels)>>
        /\ \A l \in RecLabels :
               \A i \in 1..Len(Recordings(l)) :
                   LET f       == Recordings(l)[i]
                       written == \E d \in dataset : d.label = l /\ d.name = f
                   IN  IF f \in BadRecordings
                       THEN /\ ~ written
                            /\ Cardinality(LinesAbout(l, f)) = 1
                            /\ \A k \in LinesAbout(l, f) : log[k][1] = "Error processing"
                       ELSE IF written
                            THEN LinesAbout(l, f) = {}
                            ELSE /\ Cardinality(LinesAbout(l, f)) = 1
                                 /\ \A k \in LinesAbout(l, f) :
                                        log[k][1] \in {"No activity", "Too short, skip"}

\* C20: one build works with one configuration.  When the worker of
\* "Process all labels" has ended, what it has left (the files under
\* dataset/ and the skips in the log) is what processing every recording
\* with one and the same top_db, method and min_duration leaves, whatever
\* was typed into the entries while it was running.
C20_OneConfiguration ==
    (job.pc = "idle" /\ runs = 1) =>
        \E db \in TopDbs : \E m \in Methods : \E md \in MinDurations :
            \A l \in RecLabels :
                \A i \in 1..Len(Recordings(l)) :
                    LET f == Recordings(l)[i]
                        r == ProcessOne(FileWave(f), db, m, md)
                    IN  f \notin BadRecordings =>
                            IF r.outcome = "written"
                            THEN \E d \in dataset :
                                     d.label = l /\ d.name = f /\ d.data = r.data
                            ELSE /\ ~ \E d \in dataset : d.label = l /\ d.name = f
                                 /\ \E k \in LinesAbout(l, f) : log[k][1] = r.outcome


\* the positions at which X and Y have been handed to train_test_split
HandedOver == {"raised", "split", "built", "fitted", "picked", "saving", "saved"}

\* C18: after any sequence of loaded and failing clips, the lists X and Y
\* of a thread have the same number of entries, entry i of X is the tensor
\* of the clip whose label has, in the thread's label list, the position
\* that entry i of Y holds; and when they are handed over, the array of X
\* has the shape (number of examples, N_MFCC, MAX_LEN, 1) and the array of
\* Y the shape (number of examples,).
C18_TensorsAndLabelsAligned ==
    \A t \in Threads :
        /\ Len(thr[t].X) = Len(thr[t].Y)
        /\ Len(thr[t].X) = Len(thr[t].src)
        /\ \A i \in 1..Len(thr[t].X) :
               /\ thr[t].X[i] =
                      PadOrTruncate(MelDb(FileData(thr[t].src[i][1], thr[t].src[i][2])))
               /\ thr[t].Y[i] + 1 \in 1..Len(thr[t].selected_labels)
               /\ thr[t].selected_labels[thr[t].Y[i] + 1] = thr[t].src[i][1]
        /\ thr[t].pc \in HandedOver =>
               /\ Len(thr[t].X) >= 1
               /\ ArrayShape(thr[t].X) = <<Len(thr[t].Y), N_MFCC, MAX_LEN, 1>>
               /\ \A i \in 1..Len(thr[t].X) :
                      /\ Len(thr[t].X[i]) = MAX_LEN
                      /\ \A k \in 1..MAX_LEN : Len(thr[t].X[i][k]) = N_MFCC

C18_FittedAfterFailures ==
    /\ thr["t1"].pc = "fitted"
    /\ \E i \in 1..Len(thr["t1"].lines) :
           thr["t1"].lines[i] = <<"Error loading", <<"Bat", "a.wav">> >>
    /\ thr["t1"].tried[1] = <<"Bat", "a.wav">>
    /\ Len(thr["t1"].X) = 4
    /\ thr["t1"].Y = <<0, 0, 1, 1>>


\* the number of classes among the examples of a thread
ClassesLoaded(t) == Cardinality({thr[t].Y[i] : i \in 1..Len(thr[t].Y)})

\* C15: a loader that returns no example, or examples of one class only,
\* ends with the signal of an empty dataset, and no model is built, fitted
\* or saved from it.
C15_EmptyDatasetStops ==
    \A t \in Threads :
        (thr[t].pc \in AfterLoad \ {"loaded"} /\ ClassesLoaded(t) < 2) =>
            thr[t].pc = "empty"


\* the positions of a thread whose split has been made
SplitMade == {"split", "built", "fitted", "picked", "saving", "saved"}

\* the clips a thread's split has put into the held-out subset
HeldOutClips(t) == {thr[t].src[i] : i \in thr[t].test}

\* C14: two runs of load and split over the same folders, with the same
\* label group and the same test fraction, produce the same sequence of
\* examples and put every clip into the same subset.
C14_SameInputSameResult ==
    (/\ thr["t1"].pc \in SplitMade
     /\ thr["t2"].pc \in SplitMade
     /\ thr["t1"].selected_labels = thr["t2"].selected_labels) =>
        /\ thr["t1"].src = thr["t2"].src
        /\ thr["t1"].X = thr["t2"].X
        /\ thr["t1"].Y = thr["t2"].Y
        /\ HeldOutClips("t1") = HeldOutClips("t2")


\* the label lists a model has been fitted on
TrainedOn(m) == {m.fits[k] : k \in 1..Len(m.fits)}

\* C19: when the inference window has loaded a saved model together with
\* its label file, the label found for class index i is entry i of the
\* label list the model was trained on, for every i of that list; and the
\* name "Label i" is the answer only when no label file was loaded.
C19_LabelMapRoundTrip ==
    \A g \in Groups :
        models[g] # <<>> =>
            /\ label_maps[g] # <<>> =>
                   \A L \in TrainedOn(models[g].model) :
                       \A i \in 0..(Len(L) - 1) :
                           LookupLabel(label_maps[g], i) = L[i + 1]
            /\ \A i \in 0..(models[g].model.num_classes - 1) :
                   LookupLabel(label_maps[g], i) = "Label " \o ToString(i) =>
                       label_maps[g] = <<>>


\* C21: with a negative min_duration the selection fails: _load_file logs
\* an error and no processed segment is produced.
C21_NegativeMinDurationFails ==
    (pc = "prepared" /\ min_duration < 0) =>
        /\ processed_y = <<>>
        /\ LastLine = "Load error"


\* the examples of a thread at the positions S, each with its label index
ExamplesAt(t, S) == {<<i, thr[t].src[i], thr[t].X[i], thr[t].Y[i]>> : i \in S}

LastRunEnd(l) ==
    LET S == {k \in 1..Len(log) : log[k][1] = "Processed label" /\ log[k][2] = l}
    IN  IF S = {} THEN 0 ELSE CHOOSE k \in S : \A j \in S : j <= k

\* the position of the last 'Processed label' line before position e
RunStart(e) ==
    LET S == {k \in 1..(e - 1) : log[k][1] = "Processed label"}
    IN  IF S = {} THEN 0 ELSE CHOOSE k \in S : \A j \in S : j <= k

\* the most recent finished run over label l has rejected the recording f
RejectedByLatestRun(l, f) ==
    /\ LastRunEnd(l) > 0
    /\ \E k \in (RunStart(LastRunEnd(l)) + 1)..(LastRunEnd(l) - 1) :
           /\ log[k][1] \in {"No activity", "Too short, skip"}
           /\ log[k][2] = <<l, f>>

\* C23: when no worker runs, a recording that the most recent run over its
\* label has rejected (no activity, or too short) has no file in the
\* label's folder under dataset/.
C23_NoStaleFile ==
    job.pc = "idle" =>
        \A l \in RecLabels : \A i \in 1..Len(Recordings(l)) :
            RejectedByLatestRun(l, Recordings(l)[i]) =>
                ~ \E d \in dataset : d.label = l /\ d.name = Recordings(l)[i]


\* the file d and the label file j written beside it are those of group g
OfGroup(d, j, g) ==
    /\ \E i \in 1..(Cardinality(h5_files) + 1) : d.path = ModelPath(g, i)
    /\ d.model.num_classes = Len(LABEL_GROUPS[g])
    /\ TrainedOn(d.model) = {LABEL_GROUPS[g]}
    /\ j.text = JsonDump(LabelMap(LABEL_GROUPS[g]))

\* C24: every auto-saved model belongs to one label group: the labels that
\* gave its training examples their indices, its number of output classes,
\* the label map in the file beside it and the group in its file name are
\* those of the same group, however the Train presses and the changes of
\* the combo box fall while a thread runs.
C24_OneGroupPerModel ==
    \A d \in h5_files : \A j \in json_files :
        j.path = d.path \o "_labels.json" =>
            \E g \in Groups : OfGroup(d, j, g)


\* the positions of a thread whose model file has been written
ModelWritten == {"saving", "saved"}

\* C26: two training runs whose models have been auto-saved have written
\* two files of different names, and once both have ended each file has
\* its own label file.
C26_TwoRunsTwoFiles ==
    (thr["t1"].pc \in ModelWritten /\ thr["t2"].pc \in ModelWritten) =>
        /\ thr["t1"].path # thr["t2"].path
        /\ \A t \in Threads : \E d \in h5_files : d.path = thr[t].path
        /\ (thr["t1"].pc = "saved" /\ thr["t2"].pc = "saved") =>
               /\ Cardinality(h5_files) = 2
               /\ Cardinality(json_files) = 2


\* the recordings on disk under recordings/, in the root or a label folder
OnDisk(root, sorted) == {<<FileName(f.label, f.num), f.data>> : f \in root \cup sorted}

\* C25: no Save Recording and no Sort by Label removes or replaces a
\* recording that is on disk: every file keeps its name and its content,
\* in the root of recordings/ or in its label folder.
C25_NoRecordingLost ==
    [][OnDisk(rec_root, rec_sorted) \subseteq OnDisk(rec_root', rec_sorted')]_vars

=============================================================================
